---- MODULE Spec2Model ----
(***************************************************************************)
(* Client-side prediction demo: a server, its clients and the LagNetwork   *)
(* queues between them (src/src/main.rs, src/src/server.rs,                *)
(* src/src/client.rs).                                                     *)
(*                                                                         *)
(* Units.  Time is counted in ticks of 10 ms: a latency of 250 ms is 25.   *)
(* `now` is the time since the program started (macroquad get_time /       *)
(* get_frame_time); the wall clock (SystemTime::now) is BootSecs seconds + *)
(* boot_ticks + now.  press_time is (seconds - last_time) / 1000, i.e. the *)
(* elapsed ticks in units of 1e-5; positions are exact rationals <<n, d>>  *)
(* in the same unit (f32 rounding of positions is not modelled).           *)
(* A frame reads every clock once: all handlers of one frame see the same  *)
(* `now`.                                                                  *)
(***************************************************************************)
EXTENDS Integers, Sequences, FiniteSets, TLC

\* ------------------------------------------------------------------ bounds
MaxFrames == 3         \* frames of the main loop explored
MaxInputs == 2         \* inputs the clients emit in all
MaxConfig == 1         \* configuration changes made through the UI surface

\* ------------------------------------------------- inputs drawn by actions
DeltaTimes == {1, 12700}            \* get_frame_time(): 10 ms, and a stall
Latencies == {1, 25}                \* latency_to_server: 10 ms, 250 ms
BootSecs == 1793793600              \* wall clock (epoch seconds) at start
BootTicks == {98}                   \* and its sub-second part

\* ------------------------------------------------------- program constants
NumClients == 2                     \* main registers two clients
ClientUpdateInterval == 2           \* 0.02 s
ServerUpdateInterval == 10          \* 0.1 s
EntitySpeed == 10
DefaultLatency == 25                \* 250.0 ms
F32Significand == 24                \* bits of an f32 significand

\* ------------------------------------------------------------- arithmetic
RECURSIVE Pow2(_)
Pow2(k) == IF k = 0 THEN 1 ELSE 2 * Pow2(k - 1)

RECURSIVE Log2(_)
Log2(n) == IF n < 2 THEN 0 ELSE 1 + Log2(n \div 2)

RECURSIVE Gcd(_, _)
Gcd(a, b) == IF b = 0 THEN a ELSE Gcd(b, a % b)

Abs(a) == IF a < 0 THEN -a ELSE a

\* `n as f32` for a non-negative integer: round to a 24-bit significand,
\* ties to even.
F32Exact == Pow2(F32Significand)    \* integers below it are f32 values

as_f32(n) ==
    IF n < F32Exact THEN n
    ELSE LET ulp == Pow2(Log2(n) - (F32Significand - 1))
             q == n \div ulp
             r == n % ulp
         IN  IF 2 * r < ulp THEN q * ulp
             ELSE IF 2 * r > ulp THEN (q + 1) * ulp
             ELSE IF q % 2 = 0 THEN q * ulp ELSE (q + 1) * ulp

\* `f as u32` for a non-negative integral f32: the value itself.
as_u32(f) == IF f < 0 THEN 0 ELSE f

\* Exact rationals <<n, d>>, d > 0, in lowest terms.
Rat(n, d) ==
    LET s == IF d < 0 THEN -1 ELSE 1
        g == Gcd(Abs(n), Abs(d))
    IN  IF n = 0 THEN <<0, 1>> ELSE <<(s * n) \div g, (s * d) \div g>>

RatInt(i) == <<i, 1>>
\* The sum, over the least common denominator
RatAdd(a, b) ==
    LET g == Gcd(a[2], b[2])
    IN  Rat(a[1] * (b[2] \div g) + b[1] * (a[2] \div g),
            (a[2] \div g) * b[2])

RatSub(a, b) == RatAdd(a, <<-b[1], b[2]>>)
\* The product, each numerator reduced against the other denominator first
RatMul(a, b) ==
    LET g == Gcd(Abs(a[1]), b[2])
        h == Gcd(Abs(b[1]), a[2])
    IN  Rat((a[1] \div g) * (b[1] \div h), (a[2] \div h) * (b[2] \div g))

RatDiv(a, b) == RatMul(a, IF b[1] < 0 THEN <<-b[2], -b[1]>> ELSE <<b[2], b[1]>>)

\* ------------------------------------------------------------------ state
VARIABLES
    server,         \* Server: network, time_since_last_update, entities,
                    \*         last_processed_inputs
    clients,        \* Server.clients: sequence of Client records
    now,            \* ticks since program start
    boot_ticks,     \* sub-second part of the wall clock at program start
    pc,             \* "setup" (main before the loop) or "loop"
    frames,         \* frames run so far
    configs,        \* configuration changes made so far
    sent_count,     \* per channel (0 = server inbound, c = client c inbound):
                    \*   number of send() calls
    received,       \* per channel: NetworkMessages returned by receive()
                    \*   during the latest frame, in order
    polled,         \* channels on which receive() was called during the
                    \*   latest frame
    returned_ids,   \* per channel: ids of all messages receive() returned
    returned_count, \* per channel: number of messages receive() returned
    applied,        \* per entity id: the inputs the server applied, as
                    \*   [input_sequence_number, at (time of application)]
    iteration_order,\* the order in which Server.entities (a HashMap that
                    \*   does not change after setup) is iterated
    fn_in,          \* the input of a handler applied on its own
    fn_out          \* and its result

vars == <<server, clients, now, boot_ticks, pc, frames, configs,
          sent_count, received, polled, returned_ids, returned_count, applied,
          iteration_order, fn_in, fn_out>>

Channels == 0 .. NumClients

\* ------------------------------------------------------------------ clocks
\* SystemTime::now().duration_since(UNIX_EPOCH), whole seconds
SystemSecs(t) == BootSecs + (boot_ticks + t) \div 100

\* Duration::as_secs_f32: (secs as f32) + nanos / 1e9; at this magnitude the
\* fraction is below half a unit in the last place and is rounded away.
as_secs_f32(t) == as_f32(SystemSecs(t))

\* macroquad get_time(), here in ticks.
get_time(t) == t

\* get_time_ms(): the wall clock in ticks (offset by the boot second).
get_time_ms(t) == boot_ticks + t

\* ------------------------------------------------------------------ Entity
\* Entity::new
Entity_new(entity_id) ==
    [x |-> RatInt(0), speed |-> EntitySpeed, entity_id |-> entity_id,
     position_buffer |-> <<>>]

\* Entity::applyInput: x += press_time * speed
applyInput(entity, input) ==
    [entity EXCEPT !.x = RatAdd(@, RatInt(input.press_time * entity.speed))]

\* ------------------------------------------------------------- LagNetwork
\* send with the message put at the front of the queue
send_front(messages, lag_ms, message, t, id) ==
    <<[receive_time |-> as_f32(BootSecs + (boot_ticks + t) \div 100),
       payload |-> message, id |-> id, sent_at |-> t, lag_ms |-> lag_ms]>>
        \o messages

\* LagNetwork::send.  lag_ms is not used by the code; id, sent_at and lag_ms
\* are bookkeeping fields that no operation of the program reads.
send(messages, lag_ms, message, t, id) ==
    Append(messages,
           [receive_time |-> as_secs_f32(t), payload |-> message,
            id |-> id, sent_at |-> t, lag_ms |-> lag_ms])

\* The test of LagNetwork::receive: current_time - v.receive_time >= 0.1
Due(v, current_time) == 10 * (current_time - v.receive_time) >= 1

\* Vec::remove taking the next element along with element i
RemoveAt_pair(s, i) == SubSeq(s, 1, i - 1) \o SubSeq(s, i + 2, Len(s))

\* Vec::remove(i)
RemoveAt(s, i) == SubSeq(s, 1, i - 1) \o SubSeq(s, i + 1, Len(s))

\* receive_scan taking the last message that passes the test
RECURSIVE receive_scan_last(_, _, _)
receive_scan_last(messages, i, current_time) ==
    IF i > Len(messages) THEN [some |-> FALSE, messages |-> messages]
    ELSE LET later == receive_scan_last(messages, i + 1, current_time)
         IN  IF later.some THEN later
             ELSE IF Due(messages[i], current_time)
                  THEN [some |-> TRUE, message |-> messages[i],
                        messages |-> RemoveAt(messages, i)]
                  ELSE later

\* LagNetwork::receive: scan in index order, remove and return the first
\* message that passes the test.
RECURSIVE receive_scan(_, _, _)
receive_scan(messages, i, current_time) ==
    IF i > Len(messages) THEN [some |-> FALSE, messages |-> messages]
    ELSE IF Due(messages[i], current_time)
         THEN [some |-> TRUE, message |-> messages[i],
               messages |-> RemoveAt(messages, i)]
         ELSE receive_scan(messages, i + 1, current_time)

receive(messages, t) ==
    IF Len(messages) = 0 THEN [some |-> FALSE, messages |-> messages]
    ELSE receive_scan(messages, 1, as_secs_f32(t))

\* `while true { if let Some(msg) = network.receive() {..} else { break } }`:
\* the messages successive receive() calls return, and what stays queued.
RECURSIVE Drain(_, _)
Drain(messages, t) ==
    LET r == receive(messages, t)
    IN  IF r.some
        THEN LET rest == Drain(r.messages, t)
             IN  [delivered |-> <<r.message>> \o rest.delivered,
                  messages |-> rest.messages]
        ELSE [delivered |-> <<>>, messages |-> messages]

\* ------------------------------------------------------------------ Client
Insert(map, key, value) ==
    [k \in DOMAIN map \cup {key} |-> IF k = key THEN value ELSE map[k]]

\* Client::new with the id taken as the number of clients so far
Client_new_zero(n_clients, update_interval, t) ==
    [update_interval |-> update_interval,
     time_since_last_update |-> 0,
     key_left |-> FALSE,
     key_right |-> FALSE,
     last_time |-> t,
     input_sequence_number |-> 0,
     entity_id |-> n_clients,
     network |-> <<>>,
     entities |-> <<>>,
     client_side_prediction |-> FALSE,
     server_reconciliation |-> FALSE,
     pending_inputs |-> <<>>,
     latency_to_server |-> DefaultLatency,
     entity_interpolation |-> FALSE]

\* Client::new, called by add_client before the client is pushed
Client_new(n_clients, update_interval, t) ==
    [update_interval |-> update_interval,
     time_since_last_update |-> 0,
     key_left |-> FALSE,
     key_right |-> FALSE,
     last_time |-> get_time(t),
     input_sequence_number |-> 0,
     entity_id |-> n_clients + 1,
     network |-> <<>>,
     entities |-> <<>>,
     client_side_prediction |-> FALSE,
     server_reconciliation |-> FALSE,
     pending_inputs |-> <<>>,
     latency_to_server |-> DefaultLatency,
     entity_interpolation |-> FALSE]

\* process_input leaving the sequence counter where it was
process_input_repeat(c, t) ==
    LET elapsed == t - c.last_time
        c1 == [c EXCEPT !.last_time = t]
        movement_input == [type |-> "Movement",
                           press_time |-> IF c.key_left THEN -elapsed
                                          ELSE elapsed,
                           entity_id |-> c.entity_id,
                           input_sequence_number |-> c.input_sequence_number]
        c3 == IF c1.client_side_prediction
                  /\ c1.entity_id \in DOMAIN c1.entities
              THEN [c1 EXCEPT !.entities[c1.entity_id] =
                                  applyInput(@, movement_input)]
              ELSE c1
        c4 == [c3 EXCEPT !.pending_inputs = Append(@, movement_input)]
    IN  IF ~c.key_left /\ ~c.key_right
        THEN [client |-> c1, some |-> FALSE]
        ELSE [client |-> c4, some |-> TRUE, message |-> movement_input]

\* process_input applying the input locally whatever the prediction flag
process_input_predict(c, t) ==
    LET elapsed == t - c.last_time
        c1 == [c EXCEPT !.last_time = t]
        movement_input == [type |-> "Movement",
                           press_time |-> IF c.key_left THEN -elapsed
                                          ELSE elapsed,
                           entity_id |-> c.entity_id,
                           input_sequence_number |-> c.input_sequence_number]
        c2 == [c1 EXCEPT !.input_sequence_number = @ + 1]
        c3 == IF c2.entity_id \in DOMAIN c2.entities
              THEN [c2 EXCEPT !.entities[c2.entity_id].x =
                       RatAdd(@, RatInt(movement_input.press_time
                                        * c2.entities[c2.entity_id].speed))]
              ELSE c2
        c4 == [c3 EXCEPT !.pending_inputs = Append(@, movement_input)]
    IN  IF ~c.key_left /\ ~c.key_right
        THEN [client |-> c1, some |-> FALSE]
        ELSE [client |-> c4, some |-> TRUE, message |-> movement_input]

\* Client::process_input: the updated client and the message it returns
process_input(c, t) ==
    LET seconds == get_time(t)
        elapsed == seconds - c.last_time
        c1 == [c EXCEPT !.last_time = seconds]
        delta_seconds == IF c.key_left THEN -elapsed ELSE elapsed
        movement_input == [type |-> "Movement",
                           press_time |-> delta_seconds,
                           entity_id |-> c.entity_id,
                           input_sequence_number |-> c.input_sequence_number]
        c2 == [c1 EXCEPT !.input_sequence_number = @ + 1]
        c3 == IF c2.client_side_prediction /\ c2.entity_id \in DOMAIN c2.entities
              THEN [c2 EXCEPT !.entities[c2.entity_id] =
                                  applyInput(@, movement_input)]
              ELSE c2
        c4 == [c3 EXCEPT !.pending_inputs = Append(@, movement_input)]
    IN  IF ~c.key_left /\ ~c.key_right
        THEN [client |-> c1, some |-> FALSE]
        ELSE [client |-> c4, some |-> TRUE, message |-> movement_input]

\* Reconcile keeping the input whose sequence number is the acknowledged one
RECURSIVE Reconcile_strict(_, _, _, _)
Reconcile_strict(pending_inputs, entity, last_processed_input, j) ==
    IF j > Len(pending_inputs)
    THEN [pending_inputs |-> pending_inputs, entity |-> entity]
    ELSE LET input == pending_inputs[j]
         IN  IF input.input_sequence_number < as_u32(last_processed_input)
             THEN Reconcile_strict(RemoveAt(pending_inputs, j), entity,
                                   last_processed_input, j)
             ELSE Reconcile_strict(pending_inputs, applyInput(entity, input),
                                   last_processed_input, j + 1)

\* Reconcile with the index advanced after a removal as well
RECURSIVE Reconcile_skip(_, _, _, _)
Reconcile_skip(pending_inputs, entity, last_processed_input, j) ==
    IF j > Len(pending_inputs)
    THEN [pending_inputs |-> pending_inputs, entity |-> entity]
    ELSE LET input == pending_inputs[j]
         IN  IF input.input_sequence_number <= as_u32(last_processed_input)
             THEN Reconcile_skip(RemoveAt(pending_inputs, j), entity,
                                 last_processed_input, j + 1)
             ELSE Reconcile_skip(pending_inputs, applyInput(entity, input),
                                 last_processed_input, j + 1)

\* Reconcile without the re-application of the inputs it keeps
RECURSIVE Reconcile_noreplay(_, _, _, _)
Reconcile_noreplay(pending_inputs, entity, last_processed_input, j) ==
    IF j > Len(pending_inputs)
    THEN [pending_inputs |-> pending_inputs, entity |-> entity]
    ELSE LET input == pending_inputs[j]
         IN  IF input.input_sequence_number <= as_u32(last_processed_input)
             THEN Reconcile_noreplay(RemoveAt(pending_inputs, j), entity,
                                     last_processed_input, j)
             ELSE Reconcile_noreplay(pending_inputs, entity,
                                     last_processed_input, j + 1)

\* The reconciliation loop of proccessServerMessages (`while j < len`):
\* the pending log and the own entity after the loop, from index j on.
RECURSIVE Reconcile(_, _, _, _)
Reconcile(pending_inputs, entity, last_processed_input, j) ==
    IF j > Len(pending_inputs)
    THEN [pending_inputs |-> pending_inputs, entity |-> entity]
    ELSE LET input == pending_inputs[j]
         IN  IF input.input_sequence_number <= as_u32(last_processed_input)
             THEN Reconcile(RemoveAt(pending_inputs, j), entity,
                            last_processed_input, j)
             ELSE Reconcile(pending_inputs, applyInput(entity, input),
                            last_processed_input, j + 1)

\* ProcessWorldState placing a remote entity at the snapshot position whatever
\* the interpolation flag
ProcessWorldState_snap(c, world_state, t) ==
    LET id == world_state.entity_id
        c1 == IF id \notin DOMAIN c.entities
              THEN [c EXCEPT !.entities = Insert(@, id, Entity_new(id))]
              ELSE c
        entity == c1.entities[id]
    IN  IF id = c1.entity_id
        THEN LET placed == [entity EXCEPT !.x = world_state.position]
             IN  IF c1.server_reconciliation
                 THEN LET r == Reconcile(c1.pending_inputs, placed,
                                         world_state.last_processed_input, 1)
                      IN  [c1 EXCEPT !.entities[id] = r.entity,
                                     !.pending_inputs = r.pending_inputs]
                 ELSE [c1 EXCEPT !.entities[id] = placed,
                                 !.pending_inputs = <<>>]
        ELSE IF ~c1.entity_interpolation
             THEN [c1 EXCEPT !.entities[id].x = world_state.position]
             ELSE [c1 EXCEPT !.entities[id].x = world_state.position,
                             !.entities[id].position_buffer =
                       Append(@, <<get_time_ms(t), world_state.position>>)]

\* ProcessWorldState keeping the pending log when reconciliation is disabled
ProcessWorldState_keep(c, world_state, t) ==
    LET id == world_state.entity_id
        c1 == IF id \notin DOMAIN c.entities
              THEN [c EXCEPT !.entities = Insert(@, id, Entity_new(id))]
              ELSE c
        entity == c1.entities[id]
    IN  IF id = c1.entity_id
        THEN LET placed == [entity EXCEPT !.x = world_state.position]
             IN  IF c1.server_reconciliation
                 THEN LET r == Reconcile(c1.pending_inputs, placed,
                                         world_state.last_processed_input, 1)
                      IN  [c1 EXCEPT !.entities[id] = r.entity,
                                     !.pending_inputs = r.pending_inputs]
                 ELSE [c1 EXCEPT !.entities[id] = placed]
        ELSE IF ~c1.entity_interpolation
             THEN [c1 EXCEPT !.entities[id].x = world_state.position]
             ELSE [c1 EXCEPT !.entities[id].position_buffer =
                       Append(@, <<get_time_ms(t), world_state.position>>)]

\* proccessServerMessages, body of `for world_state in world_state.world_state`
ProcessWorldState(c, world_state, t) ==
    LET id == world_state.entity_id
        c1 == IF id \notin DOMAIN c.entities
              THEN [c EXCEPT !.entities = Insert(@, id, Entity_new(id))]
              ELSE c
        entity == c1.entities[id]
    IN  IF id = c1.entity_id
        THEN LET placed == [entity EXCEPT !.x = world_state.position]
             IN  IF c1.server_reconciliation
                 THEN LET r == Reconcile(c1.pending_inputs, placed,
                                         world_state.last_processed_input, 1)
                      IN  [c1 EXCEPT !.entities[id] = r.entity,
                                     !.pending_inputs = r.pending_inputs]
                 ELSE [c1 EXCEPT !.entities[id] = placed,
                                 !.pending_inputs = <<>>]
        ELSE IF ~c1.entity_interpolation
             THEN [c1 EXCEPT !.entities[id].x = world_state.position]
             ELSE [c1 EXCEPT !.entities[id].position_buffer =
                       Append(@, <<get_time_ms(t), world_state.position>>)]

RECURSIVE ProcessEntries(_, _, _)
ProcessEntries(c, entries, t) ==
    IF entries = <<>> THEN c
    ELSE ProcessEntries(ProcessWorldState(c, Head(entries), t),
                        Tail(entries), t)

\* proccessServerMessages, body of `match msg`
ProcessMessage(c, msg, t) ==
    IF msg.type = "WorldState" THEN ProcessEntries(c, msg.world_state, t)
    ELSE c

RECURSIVE ProcessMessages(_, _, _)
ProcessMessages(c, delivered, t) ==
    IF delivered = <<>> THEN c
    ELSE ProcessMessages(ProcessMessage(c, Head(delivered).payload, t),
                         Tail(delivered), t)

\* Client::proccessServerMessages: the updated client, and the messages
\* receive() returned to it
proccessServerMessages(c, t) ==
    LET d == Drain(c.network, t)
    IN  [client |-> ProcessMessages([c EXCEPT !.network = d.messages],
                                    d.delivered, t),
         delivered |-> d.delivered]

\* interpolateEntities: `while buffer.len() >= 2 && buffer[1].0 <= render`
RECURSIVE DropOld(_, _)
DropOld(buffer, render_timestamp) ==
    IF Len(buffer) >= 2 /\ buffer[2][1] <= render_timestamp
    THEN DropOld(Tail(buffer), render_timestamp)
    ELSE buffer

\* InterpolateEntity blending from the later sample towards the earlier one
InterpolateEntity_inverted(entity, render_timestamp) ==
    LET buffer == DropOld(entity.position_buffer, render_timestamp)
    IN  IF /\ Len(buffer) >= 2
           /\ buffer[1][1] <= render_timestamp
           /\ render_timestamp <= buffer[2][1]
        THEN LET tt == RatDiv(RatInt(buffer[2][1] - render_timestamp),
                              RatInt(buffer[2][1] - buffer[1][1]))
             IN  [entity EXCEPT !.x =
                     RatAdd(buffer[1][2],
                            RatMul(tt, RatSub(buffer[2][2], buffer[1][2])))]
        ELSE IF Len(buffer) = 1 /\ buffer[1][1] <= render_timestamp
             THEN [entity EXCEPT !.x = buffer[1][2]]
             ELSE entity

\* interpolateEntities, body of `for (id, entity) in &mut self.entities`
InterpolateEntity(entity, render_timestamp) ==
    LET buffer == DropOld(entity.position_buffer, render_timestamp)
    IN  IF /\ Len(buffer) >= 2
           /\ buffer[1][1] <= render_timestamp
           /\ render_timestamp <= buffer[2][1]
        THEN LET tt == RatDiv(RatInt(render_timestamp - buffer[1][1]),
                              RatInt(buffer[2][1] - buffer[1][1]))
             IN  [entity EXCEPT !.x =
                     RatAdd(buffer[1][2],
                            RatMul(tt, RatSub(buffer[2][2], buffer[1][2])))]
        ELSE IF Len(buffer) = 1 /\ buffer[1][1] <= render_timestamp
             THEN [entity EXCEPT !.x = buffer[1][2]]
             ELSE entity

\* render_timestamp = in_ms - floor(1000 * server_update_interval)
RenderTimestamp(server_update_interval, t) ==
    get_time_ms(t) - server_update_interval

\* Client::interpolateEntities
interpolateEntities(c, server_update_interval, t) ==
    [c EXCEPT !.entities =
        [id \in DOMAIN c.entities |->
            IF id = c.entity_id THEN c.entities[id]
            ELSE InterpolateEntity(c.entities[id],
                     RenderTimestamp(server_update_interval, t))]]

\* Client::update: the updated client, the message it returns, the messages
\* receive() returned to it and whether it called receive()
Client_update(c, delta_time, server_update_interval, t) ==
    LET c1 == [c EXCEPT !.time_since_last_update = @ + delta_time]
    IN  IF c1.time_since_last_update >= c1.update_interval
        THEN LET c2 == [c1 EXCEPT !.time_since_last_update =
                                      @ - c1.update_interval]
                 p == proccessServerMessages(c2, t)
                 c3 == p.client
                 c4 == IF c3.entity_interpolation
                       THEN interpolateEntities(c3, server_update_interval, t)
                       ELSE c3
                 r == process_input(c4, t)
             IN  IF r.some
                 THEN [client |-> r.client, some |-> TRUE,
                       message |-> r.message, delivered |-> p.delivered,
                       polled |-> TRUE]
                 ELSE [client |-> r.client, some |-> FALSE,
                       delivered |-> p.delivered, polled |-> TRUE]
        ELSE [client |-> c1, some |-> FALSE, delivered |-> <<>>,
              polled |-> FALSE]

\* ------------------------------------------------------------------ Server
\* Server::new
Server_new ==
    [network |-> <<>>,
     time_since_last_update |-> 0,
     update_interval |-> ServerUpdateInterval,
     entities |-> <<>>,
     last_processed_inputs |-> <<>>]

\* Applies accepting an input whatever its entity_id
Applies_any(s, msg) == msg.type = "Movement"

\* Server::processInputs: does the server apply msg?
Applies(s, msg) ==
    msg.type = "Movement" /\ msg.entity_id \in DOMAIN s.entities

\* Server::processInputs, body of `match msg`
ProcessInput(s, msg) ==
    IF Applies(s, msg)
    THEN [s EXCEPT
             !.last_processed_inputs =
                 Insert(@, msg.entity_id, as_f32(msg.input_sequence_number)),
             !.entities[msg.entity_id] = applyInput(@, msg)]
    ELSE s

\* st = [server, applied]: applied lists, in order, the <<entity_id,
\* input_sequence_number>> of the inputs the server applied.
RECURSIVE ProcessInputsFrom(_, _)
ProcessInputsFrom(st, delivered) ==
    IF delivered = <<>> THEN st
    ELSE LET msg == Head(delivered).payload
         IN  ProcessInputsFrom(
                 [server |-> ProcessInput(st.server, msg),
                  applied |-> IF Applies(st.server, msg)
                              THEN Append(st.applied,
                                          <<msg.entity_id,
                                            msg.input_sequence_number>>)
                              ELSE st.applied],
                 Tail(delivered))

\* Server::processInputs: the updated server, the messages receive()
\* returned to it and the inputs it applied
processInputs(s, t) ==
    LET d == Drain(s.network, t)
        r == ProcessInputsFrom([server |-> [s EXCEPT !.network = d.messages],
                                applied |-> <<>>], d.delivered)
    IN  [server |-> r.server, delivered |-> d.delivered,
         applied |-> r.applied]

\* Server::sendWorldState, the message built by `for (id, entity) in
\* &self.entities`; order is the iteration order of the HashMap.
WorldStateMessage(s, order) ==
    [type |-> "WorldState",
     world_state |->
        [i \in 1 .. Len(order) |->
            [entity_id |-> order[i],
             position |-> s.entities[order[i]].x,
             last_processed_input |->
                 IF order[i] \in DOMAIN s.last_processed_inputs
                 THEN s.last_processed_inputs[order[i]]
                 ELSE 0]]]

\* Server::sendWorldState, `for client in &self.clients`: the clients after
\* the broadcast.  ids[i] is the bookkeeping id of the message to client i.
sendWorldState(s, cls, order, t, ids) ==
    [i \in 1 .. Len(cls) |->
        [cls[i] EXCEPT !.network =
            send(@, cls[i].latency_to_server, WorldStateMessage(s, order),
                 t, ids[i])]]

\* UpdateClient with the server's entity of client i being the instance the
\* client holds
UpdateClient_shared(st, i, r, t) ==
    [st EXCEPT !.clients[i] = r.client,
               !.delivered = Append(@, r.delivered),
               !.polled = IF r.polled THEN @ \cup {i} ELSE @,
               !.server.network =
                   IF r.some
                   THEN send(@, r.client.latency_to_server, r.message, t,
                             st.sent + 1)
                   ELSE @,
               !.server.entities[i] =
                   IF i \in DOMAIN r.client.entities
                   THEN r.client.entities[i] ELSE @,
               !.sent = IF r.some THEN @ + 1 ELSE @]

\* Server::update, body of `for client in &self.clients` for client i:
\* r is what client.update returned.  st = [server, clients, delivered,
\* polled, sent]: delivered[i] are the messages receive() returned to
\* client i, polled the clients that called receive(), sent the number of
\* send() calls on the server's channel.
UpdateClient(st, i, r, t) ==
    [st EXCEPT !.clients[i] = r.client,
               !.delivered = Append(@, r.delivered),
               !.polled = IF r.polled THEN @ \cup {i} ELSE @,
               !.server.network =
                   IF r.some
                   THEN send(@, r.client.latency_to_server, r.message, t,
                             st.sent + 1)
                   ELSE @,
               !.sent = IF r.some THEN @ + 1 ELSE @]

\* Server::update, `for client in &self.clients`, from client i on
RECURSIVE UpdateClients(_, _, _, _)
UpdateClients(st, i, delta_time, t) ==
    IF i > Len(st.clients) THEN st
    ELSE UpdateClients(
             UpdateClient(st, i,
                          Client_update(st.clients[i], delta_time,
                                        st.server.update_interval, t),
                          t),
             i + 1, delta_time, t)

\* Server::update, the branch taken when the update interval has elapsed:
\* u is the state after the clients' updates, p what processInputs returned.
UpdateWorld(u, p, cls, order, t, sent) ==
    [server |-> p.server,
     applied |-> p.applied,
     polled |-> u.polled \cup {0},
     clients |-> sendWorldState(p.server, u.clients, order, t,
                                [i \in 1 .. Len(cls) |-> sent[i] + 1]),
     delivered |-> [ch \in Channels |->
                       IF ch = 0 THEN p.delivered
                       ELSE IF ch <= Len(cls)
                            THEN u.delivered[ch] ELSE <<>>],
     sent |-> [ch \in Channels |->
                  IF ch = 0 THEN u.sent
                  ELSE IF ch <= Len(cls) THEN sent[ch] + 1
                       ELSE sent[ch]]]

\* Server::update after the clients' updates: the second addition of
\* delta_time and the test of the update interval
UpdateServer(u, cls, delta_time, order, t, sent) ==
    IF u.server.time_since_last_update + delta_time
           >= u.server.update_interval
    THEN UpdateWorld(
             u,
             processInputs(
                 [u.server EXCEPT !.time_since_last_update =
                      @ + delta_time - u.server.update_interval],
                 t),
             cls, order, t, sent)
    ELSE [server |-> [u.server EXCEPT !.time_since_last_update =
                                          @ + delta_time],
          applied |-> <<>>,
          polled |-> u.polled,
          clients |-> u.clients,
          delivered |-> [ch \in Channels |->
                            IF ch = 0 \/ ch > Len(cls) THEN <<>>
                            ELSE u.delivered[ch]],
          sent |-> [sent EXCEPT ![0] = u.sent]]

\* Server::update: delivered[0] are the messages receive() returned to the
\* server, delivered[i] those returned to client i.
Server_update(s, cls, delta_time, order, t, sent) ==
    UpdateServer(
        UpdateClients([server |-> [s EXCEPT !.time_since_last_update =
                                                @ + delta_time],
                       clients |-> cls,
                       delivered |-> <<>>, polled |-> {},
                       sent |-> sent[0]],
                      1, delta_time, t),
        cls, delta_time, order, t, sent)

\* Server::add_client: the server and its clients after the registration
add_client(s, cls, t) ==
    LET client == Client_new(Len(cls), ClientUpdateInterval, t)
        cls1 == Append(cls, client)
        entity_id == Len(cls1)
    IN  [server |-> [s EXCEPT !.entities =
                         Insert(@, entity_id, Entity_new(entity_id))],
         clients |-> cls1]

\* ------------------------------------------------------------------ actions
Keys == {<<FALSE, FALSE>>, <<TRUE, FALSE>>, <<FALSE, TRUE>>}

\* The sequences that list every element of S once
Orders(S) ==
    {o \in [1 .. Cardinality(S) -> S] : \A e \in S : \E i \in DOMAIN o : o[i] = e}

Ids(delivered) == {delivered[i].id : i \in DOMAIN delivered}

\* The inputs among `log` that belong to entity id, in order, stamped t
RECURSIVE AppliedTo(_, _, _)
AppliedTo(log, id, t) ==
    IF log = <<>> THEN <<>>
    ELSE IF Head(log)[1] = id
         THEN <<[input_sequence_number |-> Head(log)[2], at |-> t]>>
                  \o AppliedTo(Tail(log), id, t)
         ELSE AppliedTo(Tail(log), id, t)

\* The number of inputs the clients have emitted
RECURSIVE Emitted(_)
Emitted(cls) ==
    IF cls = <<>> THEN 0
    ELSE Head(cls).input_sequence_number + Emitted(Tail(cls))

\* The number of clients with a key held
RECURSIVE Pressed(_)
Pressed(keys) ==
    IF keys = <<>> THEN 0
    ELSE (IF Head(keys) = <<FALSE, FALSE>> THEN 0 ELSE 1)
             + Pressed(Tail(keys))

\* The runs explored: the player of client 1 holds keys and changes the
\* settings of its own movement; client 2 watches and may switch its
\* interpolation.
Drivers == {1}
Watchers == {2}

Init ==
    /\ server = Server_new
    /\ clients = <<>>
    /\ now = 0
    /\ boot_ticks \in BootTicks
    /\ pc = "setup"
    /\ frames = 0
    /\ configs = 0
    /\ sent_count = [ch \in Channels |-> 0]
    /\ received = [ch \in Channels |-> <<>>]
    /\ polled = {}
    /\ returned_ids = [ch \in Channels |-> {}]
    /\ returned_count = [ch \in Channels |-> 0]
    /\ applied = [id \in 1 .. NumClients |-> <<>>]
    /\ iteration_order \in Orders(1 .. NumClients)
    /\ fn_in = [kind |-> "none"]
    /\ fn_out = [done |-> FALSE]

\* main: Server::add_client(server.clone())
AddClient ==
    /\ pc = "setup"
    /\ Len(clients) < NumClients
    /\ LET r == add_client(server, clients, now)
       IN  /\ server' = r.server
           /\ clients' = r.clients
    /\ UNCHANGED <<now, boot_ticks, pc, frames, configs, sent_count,
                   received, polled, returned_ids, returned_count, applied,
                   iteration_order, fn_in, fn_out>>

\* main: entering `loop`
StartLoop ==
    /\ pc = "setup"
    /\ Len(clients) = NumClients
    /\ pc' = "loop"
    /\ UNCHANGED <<server, clients, now, boot_ticks, frames, configs,
                   sent_count, received, polled, returned_ids,
                   returned_count, applied, iteration_order, fn_in, fn_out>>

\* main: one iteration of `loop` with frame time delta_time and the keys
\* sampled for every client, then server.update(delta_time)
Step(delta_time, keys) ==
    /\ LET t == now + delta_time
           cls == [i \in 1 .. Len(clients) |->
                      [clients[i] EXCEPT !.key_left = keys[i][1],
                                         !.key_right = keys[i][2]]]
       IN  \E r \in {Server_update(server, cls, delta_time,
                                   iteration_order, t, sent_count)} :
               /\ now' = t
               /\ server' = r.server
               /\ clients' = r.clients
               /\ received' = r.delivered
               /\ polled' = r.polled
               /\ sent_count' = r.sent
               /\ returned_ids' =
                      [ch \in Channels |->
                          returned_ids[ch] \cup Ids(r.delivered[ch])]
               /\ returned_count' =
                      [ch \in Channels |->
                          returned_count[ch] + Len(r.delivered[ch])]
               /\ applied' =
                      [id \in DOMAIN applied |->
                          applied[id] \o AppliedTo(r.applied, id, t)]
    /\ frames' = frames + 1
    /\ UNCHANGED <<boot_ticks, pc, configs, iteration_order, fn_in, fn_out>>

\* The keys the players may hold in a frame: only the drivers hold any, and
\* the clients emit MaxInputs inputs at most
KeysHeld ==
    {keys \in [1 .. Len(clients) -> Keys] :
        /\ Emitted(clients) + Pressed(keys) <= MaxInputs
        /\ \A i \in DOMAIN keys :
              i \notin Drivers => keys[i] = <<FALSE, FALSE>>}

\* main: one iteration of `loop`
Frame ==
    /\ pc = "loop"
    /\ frames < MaxFrames
    /\ \E delta_time \in DeltaTimes, keys \in KeysHeld :
          Step(delta_time, keys)

\* The configuration surface of a client (its pub fields), changed between
\* frames.
Configure(i, field, value) ==
    /\ pc = "loop"
    /\ configs < MaxConfig
    /\ clients[i][field] # value
    /\ clients' = [clients EXCEPT ![i][field] = value]
    /\ configs' = configs + 1
    /\ UNCHANGED <<server, now, boot_ticks, pc, frames, sent_count,
                   received, polled, returned_ids, returned_count, applied,
                   iteration_order, fn_in, fn_out>>

SetPrediction ==
    \E i \in Drivers \cap DOMAIN clients, b \in BOOLEAN :
        Configure(i, "client_side_prediction", b)

SetReconciliation ==
    \E i \in Drivers \cap DOMAIN clients, b \in BOOLEAN :
        Configure(i, "server_reconciliation", b)

SetInterpolation ==
    \E i \in Watchers \cap DOMAIN clients, b \in BOOLEAN :
        Configure(i, "entity_interpolation", b)

SetLatency ==
    \E i \in Drivers \cap DOMAIN clients, l \in Latencies :
        Configure(i, "latency_to_server", l)

Next ==
    \/ AddClient
    \/ StartLoop
    \/ Frame
    \/ SetPrediction
    \/ SetReconciliation
    \/ SetInterpolation
    \/ SetLatency

Spec == Init /\ [][Next]_vars

TypeOK ==
    /\ pc \in {"setup", "loop"}
    /\ Len(clients) <= NumClients
    /\ Emitted(clients) <= MaxInputs

\* ----------------------------------------------------------- the channels
\* The queue of channel ch: 0 is the server's, i is client i's
Queue(ch) ==
    IF ch = 0 THEN server.network
    ELSE IF ch <= Len(clients) THEN clients[ch].network ELSE <<>>

QueueIds(ch) == {Queue(ch)[i].id : i \in DOMAIN Queue(ch)}

\* C3: a message sent at time T with latency L is never returned by
\* receive() at a time earlier than T + L.
C3_NeverBeforeLatency ==
    \A ch \in Channels : \A i \in DOMAIN received[ch] :
        now >= received[ch][i].sent_at + received[ch][i].lag_ms

\* C4: a message sent at time T with latency L is returned by the first
\* receive() made at a time >= T + L: once receive() has been called on a
\* channel until it returned nothing, no message with T + L <= now is queued.
C4_ReturnedOnceLatencyPassed ==
    \A ch \in polled : \A i \in DOMAIN Queue(ch) :
        now < Queue(ch)[i].sent_at + Queue(ch)[i].lag_ms

\* The first index of q whose message passes the test of receive at time t,
\* 0 if there is none
FirstDue(q, current_time) ==
    IF \E i \in DOMAIN q : Due(q[i], current_time)
    THEN CHOOSE i \in DOMAIN q :
            /\ Due(q[i], current_time)
            /\ \A j \in 1 .. i - 1 : ~Due(q[j], current_time)
    ELSE 0

OwnPosition(c) ==
    IF c.entity_id \in DOMAIN c.entities
    THEN <<c.entities[c.entity_id].x>> ELSE <<>>

Unassisted(c) == ~c.client_side_prediction /\ ~c.server_reconciliation

\* The latest snapshot client i processed was built after the server applied
\* the first input of i
ProcessedAcknowledging(i) ==
    /\ received[i] # <<>>
    /\ applied[i] # <<>>
    /\ received[i][Len(received[i])].sent_at >= applied[i][1].at

\* C8: for a client with prediction and reconciliation disabled, the local
\* position of its own entity does not change in a frame in which it receives
\* no snapshot, whatever input it emits; and when it has emitted one input
\* and has processed the snapshot the server built after applying it, its
\* local position is the server's authoritative position.
C8_UnassistedClientFollowsServer ==
    /\ [][\A i \in 1 .. Len(clients) :
            (Unassisted(clients[i]) /\ received'[i] = <<>>)
                => OwnPosition(clients'[i]) = OwnPosition(clients[i])]_vars
    /\ [](\A i \in 1 .. Len(clients) :
            (/\ Unassisted(clients[i])
             /\ clients[i].input_sequence_number = 1
             /\ ProcessedAcknowledging(i))
                => OwnPosition(clients[i]) = <<server.entities[i].x>>)

\* A client that emitted one left-move input, unassisted, has processed the
\* snapshot built after the server applied it
C8_Witness ==
    \E i \in 1 .. Len(clients) :
        /\ Unassisted(clients[i])
        /\ clients[i].input_sequence_number = 1
        /\ ProcessedAcknowledging(i)
        /\ server.entities[i].x[1] < 0
        /\ clients[i].pending_inputs = <<>>

\* C9: after any number of registrations the n-th client has entity id n, the
\* server holds one entity for each id 1..N, that entity carries the id of
\* its client, and no id is used twice.
C9_RegistrationIds ==
    /\ DOMAIN server.entities = 1 .. Len(clients)
    /\ \A n \in 1 .. Len(clients) :
          /\ clients[n].entity_id = n
          /\ server.entities[n].entity_id = clients[n].entity_id
    /\ \A m \in 1 .. Len(clients) : \A n \in 1 .. Len(clients) :
          clients[m].entity_id = clients[n].entity_id => m = n

\* Two clients are registered and frames have run without any input
C9_Witness ==
    /\ Len(clients) = 2
    /\ frames >= 2
    /\ sent_count[0] = 0
    /\ sent_count[2] >= 1

\* ------------------------------------------------- reconciliation by itself
\* proccessServerMessages applied to a client whose channel holds one due
\* snapshot, for every pending log a client can hold: the inputs it emitted
\* last, in emission order.
MaxPending == 3                     \* longest pending log drawn
MaxAck == 4                         \* largest acknowledged sequence drawn
PressTimes == {-2, 1, 3}
Positions == {RatInt(0), RatInt(-30), RatInt(7)}

PendingLogs(own) ==
    UNION {{[i \in 1 .. n |->
                [type |-> "Movement", press_time |-> pt[i],
                 entity_id |-> own,
                 input_sequence_number |-> first + i - 1]] :
               pt \in [1 .. n -> PressTimes], first \in 0 .. 2} :
           n \in 0 .. MaxPending}

\* The state of main when it enters the loop
Registered ==
    LET a == add_client(Server_new, <<>>, 0)
    IN  add_client(a.server, a.clients, 0)

InitReconcile ==
    /\ server = Registered.server
    /\ clients = Registered.clients
    /\ now = 12700
    /\ boot_ticks \in BootTicks
    /\ pc = "loop"
    /\ frames = 0
    /\ configs = 0
    /\ sent_count = [ch \in Channels |-> 0]
    /\ received = [ch \in Channels |-> <<>>]
    /\ polled = {}
    /\ returned_ids = [ch \in Channels |-> {}]
    /\ returned_count = [ch \in Channels |-> 0]
    /\ applied = [id \in 1 .. NumClients |-> <<>>]
    /\ iteration_order \in Orders(1 .. NumClients)
    /\ fn_out = [done |-> FALSE]
    /\ \E log \in PendingLogs(1), ack \in 0 .. MaxAck,
          position \in Positions, reconcile \in BOOLEAN, seen \in BOOLEAN,
          predict \in BOOLEAN :
          LET s == [Registered.server EXCEPT
                       !.entities[1].x = position,
                       !.last_processed_inputs = Insert(@, 1, as_f32(ack))]
              c == [Registered.clients[1] EXCEPT
                       !.pending_inputs = log,
                       !.input_sequence_number =
                           IF log = <<>> THEN 0
                           ELSE log[Len(log)].input_sequence_number + 1,
                       !.server_reconciliation = reconcile,
                       !.client_side_prediction = predict,
                       !.entities =
                           IF seen
                           THEN Insert(<<>>, 1,
                                    [Entity_new(1) EXCEPT !.x = RatInt(11)])
                           ELSE <<>>]
          IN  fn_in = [kind |-> "reconcile",
                       client |-> sendWorldState(s, <<c>>, iteration_order,
                                                 0, <<1>>)[1],
                       position |-> position,
                       ack |-> ack]

\* One due tick's proccessServerMessages of that client
ApplySnapshot ==
    /\ fn_in.kind = "reconcile"
    /\ ~fn_out.done
    /\ fn_out' = [done |-> TRUE,
                  client |-> proccessServerMessages(fn_in.client, now).client]
    /\ UNCHANGED <<server, clients, now, boot_ticks, pc, frames, configs,
                   sent_count, received, polled, returned_ids, returned_count,
                   applied, iteration_order, fn_in>>

SpecReconcile == InitReconcile /\ [][ApplySnapshot]_vars

Unacknowledged(log, ack) ==
    SelectSeq(log, LAMBDA m : m.input_sequence_number > ack)

RECURSIVE SumPressTime(_)
SumPressTime(log) ==
    IF log = <<>> THEN 0 ELSE Head(log).press_time + SumPressTime(Tail(log))

Reconciled ==
    /\ fn_in.kind = "reconcile"
    /\ fn_out.done
    /\ fn_in.client.server_reconciliation

\* C1: with reconciliation enabled, after the client has processed a snapshot
\* entry for its own entity with acknowledged sequence k, its local position
\* is the snapshot position plus press_time * speed of every input that was
\* pending with a sequence number above k.
C1_ReplayReproducesPosition ==
    Reconciled =>
        fn_out.client.entities[1].x =
            RatAdd(fn_in.position,
                   RatInt(EntitySpeed *
                          SumPressTime(Unacknowledged(
                              fn_in.client.pending_inputs, fn_in.ack))))

\* A log of three inputs of which the snapshot acknowledges the first only
C1_Witness ==
    /\ Reconciled
    /\ Len(fn_in.client.pending_inputs) = 3
    /\ fn_in.client.pending_inputs[1].input_sequence_number = fn_in.ack
    /\ fn_out.client.entities[1].x # fn_in.position

\* C2: with reconciliation enabled, after the client has processed a snapshot
\* entry for its own entity with last_processed_input = k, its pending log is
\* the previous log restricted to sequence numbers above k, in the same order.
C2_PruningKeepsUnacknowledged ==
    Reconciled =>
        fn_out.client.pending_inputs =
            Unacknowledged(fn_in.client.pending_inputs, fn_in.ack)

\* A log of three inputs of which the snapshot acknowledges the first two
C2_Witness ==
    /\ Reconciled
    /\ Len(fn_in.client.pending_inputs) = 3
    /\ fn_in.client.pending_inputs[2].input_sequence_number = fn_in.ack
    /\ Len(fn_out.client.pending_inputs) = 1

\* -------------------------------------------------- interpolation by itself
\* One due tick of a client that holds a buffer of samples for the remote
\* entity, no key held and nothing queued.
MaxBuffer == 3                      \* longest position buffer drawn
SampleTimes == {0, 4, 10, 16}       \* 0, 40, 100, 160 ms
SamplePositions == {RatInt(0), RatInt(10), RatInt(-5)}
TickTimes == {14, 20, 26}           \* render timestamps 40, 100, 160 ms

\* Buffers as the client builds them: timestamps in receipt order
PositionBuffers ==
    UNION {{b \in [1 .. n -> SampleTimes \X SamplePositions] :
               \A i \in 1 .. n - 1 : b[i][1] <= b[i + 1][1]} :
           n \in 0 .. MaxBuffer}

InitInterpolate ==
    /\ server = Registered.server
    /\ clients = Registered.clients
    /\ now \in TickTimes
    /\ boot_ticks = 0
    /\ pc = "loop"
    /\ frames = 0
    /\ configs = 0
    /\ sent_count = [ch \in Channels |-> 0]
    /\ received = [ch \in Channels |-> <<>>]
    /\ polled = {}
    /\ returned_ids = [ch \in Channels |-> {}]
    /\ returned_count = [ch \in Channels |-> 0]
    /\ applied = [id \in 1 .. NumClients |-> <<>>]
    /\ iteration_order \in Orders(1 .. NumClients)
    /\ fn_out = [done |-> FALSE]
    /\ \E buffer \in PositionBuffers, interpolation \in BOOLEAN :
          fn_in = [kind |-> "interpolate",
                   client |->
                       [Registered.clients[1] EXCEPT
                           !.entity_interpolation = interpolation,
                           !.time_since_last_update = 1,
                           !.entities =
                               Insert(Insert(<<>>, 1,
                                          [Entity_new(1) EXCEPT
                                              !.x = RatInt(3)]),
                                      2,
                                      [Entity_new(2) EXCEPT
                                          !.x = RatInt(1),
                                          !.position_buffer = buffer])]]

\* Client::update on a frame of 10 ms that makes the tick due
ApplyTick ==
    /\ fn_in.kind = "interpolate"
    /\ ~fn_out.done
    /\ fn_out' = [done |-> TRUE,
                  client |-> Client_update(fn_in.client, 1,
                                           ServerUpdateInterval, now).client]
    /\ UNCHANGED <<server, clients, now, boot_ticks, pc, frames, configs,
                   sent_count, received, polled, returned_ids,
                   returned_count, applied, iteration_order, fn_in>>

SpecInterpolate == InitInterpolate /\ [][ApplyTick]_vars

Interpolated ==
    /\ fn_in.kind = "interpolate"
    /\ fn_out.done
    /\ fn_in.client.entity_interpolation

\* C10: with interpolation enabled, a remote entity whose buffer starts with
\* samples (t0, p0), (t1, p1) with t0 < render_timestamp < t1 is placed at
\* p0 + ((render_timestamp - t0) / (t1 - t0)) * (p1 - p0); samples (0, 0) and
\* (100 ms, 10) with render_timestamp 40 ms give position 4.
C10_LinearBlend ==
    Interpolated =>
        LET b == fn_in.client.entities[2].position_buffer
            rt == RenderTimestamp(ServerUpdateInterval, now)
            x == fn_out.client.entities[2].x
        IN  (Len(b) >= 2 /\ b[1][1] < rt /\ rt < b[2][1]) =>
                /\ RatMul(RatSub(x, b[1][2]), RatInt(b[2][1] - b[1][1]))
                       = RatMul(RatInt(rt - b[1][1]), RatSub(b[2][2], b[1][2]))
                /\ (/\ b[1] = <<0, RatInt(0)>>
                    /\ b[2] = <<10, RatInt(10)>>
                    /\ rt = 4) => x = RatInt(4)

\* The samples (0, 0), (100 ms, 10) seen at render_timestamp 40 ms
C10_Witness ==
    /\ Interpolated
    /\ Len(fn_in.client.entities[2].position_buffer) = 3
    /\ fn_in.client.entities[2].position_buffer[1] = <<0, RatInt(0)>>
    /\ fn_in.client.entities[2].position_buffer[2] = <<10, RatInt(10)>>
    /\ RenderTimestamp(ServerUpdateInterval, now) = 4
    /\ fn_out.client.entities[2].x = RatInt(4)

\* --------------------------------------------------- processInputs by itself
\* Server::processInputs applied to a server whose channel holds due Movement
\* Inputs, some of them for an entity id the server has no Entity for.
MaxQueued == 3                      \* longest inbound queue drawn
UnknownId == NumClients + 1
QueuedPressTimes == {-2, 3}

\* The queues drawn: input i carries sequence number i - 1
QueuedInputs ==
    UNION {{[i \in 1 .. n |->
                [type |-> "Movement", press_time |-> f[i][2],
                 entity_id |-> f[i][1],
                 input_sequence_number |-> i - 1]] :
               f \in [1 .. n -> (1 .. UnknownId) \X QueuedPressTimes]} :
           n \in 0 .. MaxQueued}

\* The channel after the inputs of `inputs` were sent at time t, from input
\* i on
RECURSIVE SendAll(_, _, _, _)
SendAll(messages, inputs, i, t) ==
    IF i > Len(inputs) THEN messages
    ELSE SendAll(send(messages, DefaultLatency, inputs[i], t, i),
                 inputs, i + 1, t)

InitProcessInputs ==
    /\ server = Registered.server
    /\ clients = Registered.clients
    /\ now = 12700
    /\ boot_ticks \in BootTicks
    /\ pc = "loop"
    /\ frames = 0
    /\ configs = 0
    /\ sent_count = [ch \in Channels |-> 0]
    /\ received = [ch \in Channels |-> <<>>]
    /\ polled = {}
    /\ returned_ids = [ch \in Channels |-> {}]
    /\ returned_count = [ch \in Channels |-> 0]
    /\ applied = [id \in 1 .. NumClients |-> <<>>]
    /\ iteration_order \in Orders(1 .. NumClients)
    /\ fn_out = [done |-> FALSE]
    /\ \E inputs \in QueuedInputs, acked \in BOOLEAN :
          fn_in = [kind |-> "inputs",
                   inputs |-> inputs,
                   server |->
                       [Registered.server EXCEPT
                           !.network = SendAll(<<>>, inputs, 1, 0),
                           !.entities[2].x = RatInt(7),
                           !.last_processed_inputs =
                               IF acked THEN Insert(@, 2, as_f32(5))
                               ELSE @]]

\* One processInputs of that server, a stall after the inputs were sent
ApplyProcessInputs ==
    /\ fn_in.kind = "inputs"
    /\ ~fn_out.done
    /\ fn_out' = [done |-> TRUE,
                  server |-> processInputs(fn_in.server, now).server]
    /\ UNCHANGED <<server, clients, now, boot_ticks, pc, frames, configs,
                   sent_count, received, polled, returned_ids,
                   returned_count, applied, iteration_order, fn_in>>

SpecProcessInputs == InitProcessInputs /\ [][ApplyProcessInputs]_vars

InputsProcessed == fn_in.kind = "inputs" /\ fn_out.done

\* The inputs of `inputs` addressed to entity id, in order
InputsFor(inputs, id) == SelectSeq(inputs, LAMBDA m : m.entity_id = id)

\* C11: an input whose entity_id has no authoritative Entity is consumed and
\* changes nothing: after processInputs the channel is empty, the entities
\* are those there were, every position is the old position plus the inputs
\* addressed to that entity, every last_processed_input entry is that of the
\* last input addressed to the entity (the old entry when there is none), and
\* no entry exists for the unknown id.
C11_UnknownEntityInputDropped ==
    InputsProcessed =>
        /\ fn_out.server.network = <<>>
        /\ DOMAIN fn_out.server.entities = DOMAIN fn_in.server.entities
        /\ DOMAIN fn_out.server.last_processed_inputs
               \subseteq DOMAIN fn_in.server.entities
        /\ \A id \in DOMAIN fn_in.server.entities :
              LET mine == InputsFor(fn_in.inputs, id)
                  old == fn_in.server.last_processed_inputs
                  new == fn_out.server.last_processed_inputs
              IN  /\ fn_out.server.entities[id].x =
                         RatAdd(fn_in.server.entities[id].x,
                                RatInt(EntitySpeed * SumPressTime(mine)))
                  /\ IF mine = <<>>
                     THEN /\ id \in DOMAIN new <=> id \in DOMAIN old
                          /\ id \in DOMAIN old => new[id] = old[id]
                     ELSE /\ id \in DOMAIN new
                          /\ new[id] =
                                as_f32(mine[Len(mine)].input_sequence_number)

\* A queue of three inputs, the middle one for the unknown id, was processed
C11_Witness ==
    /\ InputsProcessed
    /\ Len(fn_in.inputs) = 3
    /\ fn_in.inputs[1].entity_id = 1
    /\ fn_in.inputs[2].entity_id = UnknownId
    /\ fn_in.inputs[3].entity_id = 1
    /\ fn_out.server.network = <<>>
    /\ fn_out.server.entities[1].x # fn_in.server.entities[1].x

\* ------------------------------------------------------ the server's pace
\* The main loop run at ordinary frame times (20, 50 and 100 ms), too short
\* for the f32 clock reading of the channels to change.
ShortDeltaTimes == {2, 5, 10}

ShortFrame ==
    /\ pc = "loop"
    /\ frames < MaxFrames
    /\ \E delta_time \in ShortDeltaTimes, keys \in KeysHeld :
          Step(delta_time, keys)

NextPace ==
    \/ AddClient
    \/ StartLoop
    \/ ShortFrame

SpecPace == Init /\ [][NextPace]_vars

\* The authoritative updates the server has performed: each one enqueues one
\* snapshot for client 1
Updates == sent_count[1]

\* C12: the server updates only when the time accumulated from the
\* delta_time arguments reaches update_interval and each update takes
\* update_interval off the accumulator, so the number of updates never
\* exceeds (sum of all delta_time) / update_interval.
C12_UpdatesPacedByInterval ==
    Updates * ServerUpdateInterval <= now

\* ------------------------------------------------------------ the snapshot
\* The snapshot the server enqueued for client i in the frame just run: the
\* clients tick before the server broadcasts, so it is the last of the queue
Broadcast(i) == Queue(i)[Len(Queue(i))]

\* The sequence number of the last input the server applied to entity id
LastApplied(id) == applied[id][Len(applied[id])].input_sequence_number

\* v is what a snapshot carries to acknowledge some input
AcknowledgesInput(v) == \E k \in 0 .. MaxInputs : v = as_f32(k)

\* Entry e of a snapshot is what the server holds for its entity
EntryOfServer(e) ==
    /\ e.entity_id \in DOMAIN server.entities
    /\ e.position = server.entities[e.entity_id].x
    /\ IF applied[e.entity_id] # <<>>
       THEN e.last_processed_input = as_f32(LastApplied(e.entity_id))
       ELSE ~AcknowledgesInput(e.last_processed_input)

\* C13: an authoritative update applies every due input, then enqueues
\* exactly one snapshot for every client; the snapshot has one entry per
\* authoritative entity, with the position after those inputs and the
\* sequence number of the last input applied to the entity, or, when none
\* was applied, a default that acknowledges no input.
C13_OneSnapshotPerUpdate ==
    0 \in polled =>
        /\ \A j \in DOMAIN Queue(0) : ~Due(Queue(0)[j], as_secs_f32(now))
        /\ \A i \in 1 .. Len(clients) :
              /\ Queue(i) # <<>>
              /\ Broadcast(i).sent_at = now
              /\ Broadcast(i).id = sent_count[i]
              /\ \A j \in 1 .. Len(Queue(i)) - 1 : Queue(i)[j].sent_at < now
              /\ Broadcast(i).payload.type = "WorldState"
              /\ LET ws == Broadcast(i).payload.world_state
                 IN  /\ Len(ws) = Cardinality(DOMAIN server.entities)
                     /\ {ws[k].entity_id : k \in DOMAIN ws}
                            = DOMAIN server.entities
                     /\ \A k \in DOMAIN ws : EntryOfServer(ws[k])

\* ------------------------------------------------------------ the emission
\* The inputs of entity id sent to the server during the step: the messages
\* of the server's channel, queued or just returned, that were not counted
\* before it
EmittedInStep(id) ==
    SelectSeq(received'[0] \o server'.network,
              LAMBDA m : m.id > sent_count[0] /\ m.payload.entity_id = id)

\* C14: a client tick emits at most one Movement Input, and none when the
\* tick is not due or no key is held; an emitted input carries the value of
\* the client's counter, which advances by one per emitted input and not at
\* all otherwise: the inputs of a client are numbered 0, 1, 2, ...
C14_OneInputPerTickNumberedInOrder ==
    [][\A i \in 1 .. Len(clients) :
          LET mine == EmittedInStep(clients[i].entity_id)
              held == clients'[i].key_left \/ clients'[i].key_right
              due == now' > now /\ i \in polled'
          IN  /\ Len(mine) <= 1
              /\ (~due \/ ~held) => mine = <<>>
              /\ clients'[i].input_sequence_number =
                     clients[i].input_sequence_number + Len(mine)
              /\ mine # <<>> =>
                     mine[1].payload.input_sequence_number =
                         clients[i].input_sequence_number]_vars

\* Client 1 has emitted two inputs: both are queued for the server, numbered
\* 0 and 1
C14_Witness ==
    /\ clients # <<>>
    /\ clients[1].input_sequence_number = 2
    /\ Len(server.network) = 2
    /\ server.network[1].payload.input_sequence_number = 0
    /\ server.network[2].payload.input_sequence_number = 1
    /\ server.network[1].sent_at < server.network[2].sent_at

\* ---------------------------------------------------------- reconciliation
\* The server had applied input k of entity id when it built snapshot m
AppliedBefore(id, k, m) ==
    \E j \in DOMAIN applied[id] :
        /\ applied[id][j].input_sequence_number = k
        /\ applied[id][j].at <= m.sent_at

\* The sequence numbers of the inputs of a pending log
PendingNumbers(c) ==
    {c.pending_inputs[j].input_sequence_number : j \in DOMAIN c.pending_inputs}

\* C15: with reconciliation enabled, a client removes an input from its
\* pending log only if the server had applied that input when it built a
\* snapshot the client processed in that tick, also when the snapshot was
\* built before the server processed any input of the client.
C15_RemovesOnlyAppliedInputs ==
    [][\A i \in 1 .. Len(clients) :
          clients[i].server_reconciliation =>
              \A k \in PendingNumbers(clients[i]) \ PendingNumbers(clients'[i]) :
                  \E j \in DOMAIN received'[i] :
                      AppliedBefore(clients[i].entity_id, k,
                                    received'[i][j])]_vars

\* -------------------------------------------- a snapshot, no reconciliation
Unreconciled ==
    /\ fn_in.kind = "reconcile"
    /\ fn_out.done
    /\ ~fn_in.client.server_reconciliation

\* C16: with reconciliation disabled, after the client has processed a
\* snapshot with an entry for its own entity its pending log is empty and
\* its local position of that entity is the snapshot position, whatever the
\* prediction flag and whatever inputs were pending.
C16_SnapshotTakenAsIs ==
    Unreconciled =>
        /\ fn_out.client.pending_inputs = <<>>
        /\ fn_out.client.entities[1].x = fn_in.position

\* A predicting client with three pending inputs and a local position of its
\* own took a snapshot that acknowledges none of them
C16_Witness ==
    /\ Unreconciled
    /\ fn_in.client.client_side_prediction
    /\ Len(fn_in.client.pending_inputs) = 3
    /\ fn_in.client.pending_inputs[1].input_sequence_number > fn_in.ack
    /\ 1 \in DOMAIN fn_in.client.entities
    /\ fn_in.client.entities[1].x # fn_in.position
    /\ fn_out.client.pending_inputs = <<>>

\* ------------------------------------------------------------- prediction
\* The positions a client holds, per entity id
LocalPositions(c) == [id \in DOMAIN c.entities |-> c.entities[id].x]

\* C17: every emitted input ends the pending log, whatever the prediction
\* flag; in a tick that processes no snapshot and interpolates nothing, the
\* emission moves the client's own entity by press_time * speed when
\* prediction is enabled, and changes no local position when it is disabled.
C17_PredictionMovesOnlyWhenEnabled ==
    [][\A i \in 1 .. Len(clients) :
          LET mine == EmittedInStep(clients[i].entity_id)
              c == clients[i]
              d == clients'[i]
          IN  mine # <<>> =>
                  /\ d.pending_inputs # <<>>
                  /\ d.pending_inputs[Len(d.pending_inputs)] = mine[1].payload
                  /\ (received'[i] = <<>> /\ ~c.entity_interpolation) =>
                        /\ d.pending_inputs =
                               Append(c.pending_inputs, mine[1].payload)
                        /\ LocalPositions(d) =
                               [id \in DOMAIN c.entities |->
                                   IF c.client_side_prediction
                                          /\ id = c.entity_id
                                   THEN RatAdd(c.entities[id].x,
                                            RatInt(mine[1].payload.press_time
                                                   * c.entities[id].speed))
                                   ELSE c.entities[id].x]]_vars

\* A predicting client that knows its entity emitted an input in a tick that
\* processed no snapshot: its entity moved although the server, which has
\* applied nothing, has only ever sent position 0
C17_Witness ==
    /\ clients # <<>>
    /\ clients[1].client_side_prediction
    /\ 1 \in DOMAIN clients[1].entities
    /\ clients[1].entities[1].x # RatInt(0)
    /\ clients[1].pending_inputs # <<>>
    /\ applied[1] = <<>>
    /\ received[1] = <<>>

\* ------------------------------------------------- the interpolation buffer
\* The samples of buffer with a timestamp <= render_timestamp
Aged(buffer, render_timestamp) ==
    {j \in DOMAIN buffer : buffer[j][1] <= render_timestamp}

\* C18: after an interpolation step the stored buffer of a remote entity has
\* lost its leading samples while at least two remained and the second one's
\* timestamp was <= render_timestamp, so it holds at most one sample with a
\* timestamp <= render_timestamp.
C18_BufferPruned ==
    Interpolated =>
        LET before == fn_in.client.entities[2].position_buffer
            after == fn_out.client.entities[2].position_buffer
            rt == RenderTimestamp(ServerUpdateInterval, now)
        IN  /\ after = DropOld(before, rt)
            /\ Cardinality(Aged(after, rt)) <= 1

\* ------------------------------------------- snapshots of a remote entity
\* proccessServerMessages, then the interpolation step, applied to a client
\* whose channel holds due snapshots that place remote entity 2.
MaxSnapshots == 2                   \* most snapshots queued
RemotePositions == {RatInt(0), RatInt(-30), RatInt(7)}

\* What the client may hold before the receipt: nothing, or both entities,
\* entity 2 at position 1 with an empty buffer or with one earlier sample
KnownEntities ==
    {<<>>} \cup
    {Insert(Insert(<<>>, 1, [Entity_new(1) EXCEPT !.x = RatInt(3)]),
            2, [Entity_new(2) EXCEPT !.x = RatInt(1),
                                     !.position_buffer = b]) :
        b \in {<<>>, << <<0, RatInt(1)>> >>}}

\* The snapshots a server holding entity 2 at positions[k] builds
SnapshotsOf(positions, order) ==
    [k \in DOMAIN positions |->
        WorldStateMessage([Registered.server EXCEPT
                               !.entities[1].x = RatInt(3),
                               !.entities[2].x = positions[k]],
                          order)]

InitReceipt ==
    /\ server = Registered.server
    /\ clients = Registered.clients
    /\ now = 12700
    /\ boot_ticks \in BootTicks
    /\ pc = "loop"
    /\ frames = 0
    /\ configs = 0
    /\ sent_count = [ch \in Channels |-> 0]
    /\ received = [ch \in Channels |-> <<>>]
    /\ polled = {}
    /\ returned_ids = [ch \in Channels |-> {}]
    /\ returned_count = [ch \in Channels |-> 0]
    /\ applied = [id \in 1 .. NumClients |-> <<>>]
    /\ iteration_order \in Orders(1 .. NumClients)
    /\ fn_out = [done |-> FALSE]
    /\ \E n \in 1 .. MaxSnapshots, interpolation \in BOOLEAN,
          known \in KnownEntities :
          \E positions \in [1 .. n -> RemotePositions] :
              fn_in = [kind |-> "receipt",
                       positions |-> positions,
                       client |->
                           [Registered.clients[1] EXCEPT
                               !.entity_interpolation = interpolation,
                               !.entities = known,
                               !.network =
                                   SendAll(<<>>,
                                       SnapshotsOf(positions,
                                                   iteration_order),
                                       1, 0)]]

\* The client after proccessServerMessages
AfterReceipt(c, t) == proccessServerMessages(c, t).client

\* One proccessServerMessages of that client, and the interpolation step
\* that follows it
ApplyReceipt ==
    /\ fn_in.kind = "receipt"
    /\ ~fn_out.done
    /\ fn_out' = [done |-> TRUE,
                  received |-> AfterReceipt(fn_in.client, now),
                  interpolated |->
                      interpolateEntities(AfterReceipt(fn_in.client, now),
                                          ServerUpdateInterval, now)]
    /\ UNCHANGED <<server, clients, now, boot_ticks, pc, frames, configs,
                   sent_count, received, polled, returned_ids,
                   returned_count, applied, iteration_order, fn_in>>

SpecReceipt == InitReceipt /\ [][ApplyReceipt]_vars

SnapshotsReceived == fn_in.kind = "receipt" /\ fn_out.done

\* What the client held for entity 2 before the receipt (a new Entity when
\* it held none)
RemoteBefore ==
    IF 2 \in DOMAIN fn_in.client.entities THEN fn_in.client.entities[2]
    ELSE Entity_new(2)

\* C19: on receiving snapshot entries for a remote entity, a client with
\* interpolation disabled places the entity at the snapshot position; with
\* interpolation enabled it appends the sample (now, position) to the
\* entity's buffer and leaves the position as it was.  The interpolation
\* step does not change the client's own entity.
C19_RemoteEntryByInterpolationFlag ==
    SnapshotsReceived =>
        LET ps == fn_in.positions
            remote == fn_out.received.entities[2]
        IN  /\ ~fn_in.client.entity_interpolation =>
                  /\ remote.x = ps[Len(ps)]
                  /\ remote.position_buffer = RemoteBefore.position_buffer
            /\ fn_in.client.entity_interpolation =>
                  /\ remote.x = RemoteBefore.x
                  /\ remote.position_buffer =
                         RemoteBefore.position_buffer \o
                             [k \in DOMAIN ps |-> <<get_time_ms(now), ps[k]>>]
            /\ fn_out.interpolated.entities[1] = fn_out.received.entities[1]

\* An interpolating client that held entity 2 at position 1 with one earlier
\* sample received two snapshots placing it elsewhere; the interpolation
\* step then moved entity 2 and not entity 1
C19_Witness ==
    /\ SnapshotsReceived
    /\ fn_in.client.entity_interpolation
    /\ Len(fn_in.positions) = 2
    /\ fn_in.positions[1] # fn_in.positions[2]
    /\ fn_in.positions[2] # RatInt(1)
    /\ 2 \in DOMAIN fn_in.client.entities
    /\ Len(fn_out.received.entities[2].position_buffer) = 3
    /\ fn_out.interpolated.entities[2].x # fn_out.received.entities[2].x
    /\ fn_out.interpolated.entities[1].x = RatInt(3)

\* ------------------------------------------------- the drain of a client
\* C20: on every due tick a client drains its inbound channel completely
\* before it samples input: after the drain no message whose release time
\* (send time plus latency) has arrived is left in the channel, the
\* snapshots were processed in the order they were sent, and a client whose
\* tick was not due consumed nothing.
C20_DrainsInboundCompletely ==
    \A i \in DOMAIN clients :
        /\ i \in polled =>
              \A j \in DOMAIN clients[i].network :
                  clients[i].network[j].sent_at
                      + clients[i].network[j].lag_ms > now
        /\ \A j \in DOMAIN received[i] : \A k \in DOMAIN received[i] :
              j < k => received[i][j].id < received[i][k].id
        /\ i \notin polled => received[i] = <<>>

\* ------------------------------------------- the authoritative entity set
\* The Movement Inputs for entity id among the messages receive() returned
\* to the server
MovementsFor(delivered, id) ==
    SelectSeq(delivered,
              LAMBDA m : m.payload.type = "Movement"
                             /\ m.payload.entity_id = id)

\* Position x after the inputs, in order, each moving by press_time * speed
RECURSIVE MovedBy(_, _, _)
MovedBy(x, speed, inputs) ==
    IF inputs = <<>> THEN x
    ELSE MovedBy(RatAdd(x, RatInt(Head(inputs).payload.press_time * speed)),
                 speed, Tail(inputs))

\* The server's last_processed_inputs entry of id, "none" when it has none
Acknowledged(s, id) ==
    IF id \in DOMAIN s.last_processed_inputs
    THEN s.last_processed_inputs[id] ELSE "none"

\* C21: the authoritative entities are changed by the server only.  In every
\* frame, whatever the clients' ticks did (draining, reconciliation,
\* interpolation, prediction, emission), each authoritative position is the
\* previous one moved by the Movement Inputs the server received for that
\* entity in this frame, and a last_processed_input entry changes only if
\* such an input was received; outside a frame no entity the server holds
\* changes.  A client's copy that moves does not move the server's entity.
C21_ServerOwnsAuthoritativeEntities ==
    [][\A id \in DOMAIN server.entities :
          LET inputs == IF frames' = frames + 1
                        THEN MovementsFor(received'[0], id) ELSE <<>>
          IN  /\ id \in DOMAIN server'.entities
              /\ server'.entities[id].x =
                     MovedBy(server.entities[id].x,
                             server.entities[id].speed, inputs)
              /\ inputs = <<>> =>
                     Acknowledged(server', id) = Acknowledged(server, id)
              /\ inputs # <<>> =>
                     Acknowledged(server', id) =
                         as_f32(inputs[Len(inputs)].payload
                                    .input_sequence_number)]_vars

\* A predicting client moved its own copy of its entity in a tick whose
\* input the server has not applied: the authoritative position is still 0
\* and the server has recorded no input, while the copy is elsewhere
C21_Witness ==
    /\ clients # <<>>
    /\ clients[1].client_side_prediction
    /\ 1 \in DOMAIN clients[1].entities
    /\ clients[1].entities[1].x # RatInt(0)
    /\ clients[1].input_sequence_number = 1
    /\ server.entities[1].x = RatInt(0)
    /\ Acknowledged(server, 1) = "none"
    /\ 0 \in polled

\* ------------------------------------------------------------ convergence
\* The main loop with the settings fixed at its start: the players hold keys
\* during the first frames, then release them for good (pc = "quiet") and
\* the loop goes on.  The frames of the quiet phase are 127 s long, so that
\* the f32 clock reading of receive() steps during the frames explored.
MaxInputFrames == 2    \* frames in which keys may be held
MaxQuietFrames == 4    \* frames explored once the keys are released
QuietDeltaTime == 12700

InitConverge ==
    /\ server = Registered.server
    /\ \E predict \in BOOLEAN, reconcile \in BOOLEAN :
          clients = [i \in 1 .. NumClients |->
                        IF i \in Drivers
                        THEN [Registered.clients[i] EXCEPT
                                 !.client_side_prediction = predict,
                                 !.server_reconciliation = reconcile]
                        ELSE Registered.clients[i]]
    /\ now = 0
    /\ boot_ticks \in BootTicks
    /\ pc = "loop"
    /\ frames = 0
    /\ configs = 0
    /\ sent_count = [ch \in Channels |-> 0]
    /\ received = [ch \in Channels |-> <<>>]
    /\ polled = {}
    /\ returned_ids = [ch \in Channels |-> {}]
    /\ returned_count = [ch \in Channels |-> 0]
    /\ applied = [id \in 1 .. NumClients |-> <<>>]
    /\ iteration_order \in Orders(1 .. NumClients)
    /\ fn_in = [kind |-> "none"]
    /\ fn_out = [done |-> FALSE]

\* main: one iteration of `loop` while keys may be held
InputFrame ==
    /\ pc = "loop"
    /\ frames < MaxInputFrames
    /\ \E delta_time \in DeltaTimes, keys \in KeysHeld :
          Step(delta_time, keys)

\* The players release the keys and hold none from here on
ReleaseKeys ==
    /\ pc = "loop"
    /\ pc' = "quiet"
    /\ UNCHANGED <<server, clients, now, boot_ticks, frames, configs,
                   sent_count, received, polled, returned_ids,
                   returned_count, applied, iteration_order, fn_in, fn_out>>

\* main: one iteration of `loop` with no key held
QuietFrame ==
    /\ pc = "quiet"
    /\ frames < MaxInputFrames + MaxQuietFrames
    /\ Step(QuietDeltaTime,
            [i \in 1 .. Len(clients) |-> <<FALSE, FALSE>>])

NextConverge == InputFrame \/ ReleaseKeys \/ QuietFrame

\* A frame of the quiet phase was run.  Under NextConverge these are the
\* steps of QuietFrame, which is enabled whenever its two guards hold.
QuietFrameRun ==
    /\ pc = "quiet"
    /\ frames < MaxInputFrames + MaxQuietFrames
    /\ frames' = frames + 1

\* `loop` never ends: once the keys are released, a frame that can be run is
\* run
SpecConverge ==
    /\ InitConverge
    /\ [][NextConverge]_vars
    /\ WF_frames(QuietFrameRun)

\* Client i holds no pending input and has its own entity where the server
\* has it
Converged(i) ==
    /\ clients[i].pending_inputs = <<>>
    /\ clients[i].entity_id \in DOMAIN clients[i].entities
    /\ clients[i].entities[clients[i].entity_id].x
           = server.entities[clients[i].entity_id].x

\* C22: whatever the prediction and reconciliation flags, once the clients
\* emit no more inputs and the loop keeps running, every client eventually
\* has an empty pending log and its own entity at the server's authoritative
\* position, and this stays so.
C22_Convergence ==
    <>(pc = "quiet") => <>[](\A i \in 1 .. Len(clients) : Converged(i))

\* A reconciling, predicting client that emitted two inputs, both applied by
\* the server, has converged away from the origin in the quiet phase
C22_Witness ==
    /\ pc = "quiet"
    /\ clients[1].client_side_prediction
    /\ clients[1].server_reconciliation
    /\ clients[1].input_sequence_number = 2
    /\ Len(applied[1]) = 2
    /\ Converged(1)
    /\ Converged(2)
    /\ server.entities[1].x # RatInt(0)

\* -------------------------------------------------------- acknowledgments
\* The entries of the snapshot broadcast in the step just taken, if the
\* server's update was due in it
EntriesBroadcast(i) ==
    IF frames' = frames + 1 /\ 0 \in polled'
    THEN clients'[i].network[Len(clients'[i].network)].payload.world_state
    ELSE <<>>

\* C23: the server's last_processed_input of an entity never decreases, and
\* the acknowledgment a snapshot carries for a client's entity is never
\* greater than the highest sequence number the client has emitted (its
\* counter minus one) when the snapshot is built.
C23_AcknowledgmentsBounded ==
    [][/\ \A id \in DOMAIN server.last_processed_inputs :
              /\ id \in DOMAIN server'.last_processed_inputs
              /\ server'.last_processed_inputs[id]
                     >= server.last_processed_inputs[id]
       /\ \A i \in 1 .. Len(clients) :
              \A k \in DOMAIN EntriesBroadcast(i) :
                  LET e == EntriesBroadcast(i)[k]
                  IN  e.entity_id \in 1 .. Len(clients) =>
                          e.last_processed_input
                              <= clients'[e.entity_id].input_sequence_number
                                     - 1]_vars

====
